---- MODULE Spec2Model ----
(***************************************************************************)
(* Stream-key authentication and stream lifecycle of rescuestream-api.     *)
(*                                                                         *)
(* The durable store (PostgreSQL tables broadcasters, stream_keys and      *)
(* streams) is the shared state.  Every HTTP handler is a process that     *)
(* issues its SQL statements one at a time; a statement is atomic, a       *)
(* handler is not, except for AuthService.Authenticate, which runs in one  *)
(* transaction holding the FOR UPDATE row lock of the stream key.          *)
(***************************************************************************)
EXTENDS Integers, Sequences, FiniteSets, TLC

\* ---- bounds of the model ------------------------------------------------
MaxKeys == 1
MaxBroadcasters == 1
MaxStreams == 2
MaxTime == 2
\* keys in the specification that checks that keys do not interfere
MaxKeysIsolation == 2
\* items in one listing answered by MediaMTX
MaxConns == 2
\* times MediaMTX's hook sends one notification
MaxCopies == 2
\* the request handlers that may run at the same time
Procs == {1, 2}

\* NULL of a nullable column / a nil pointer; real timestamps and ids are >= 1
Nil == 0

\* ---- strings ------------------------------------------------------------
Letters == <<"a", "b", "c", "d">>

\* key_value of the key with id k: unique per key (UNIQUE column), "sk_"+random
KeyValueOf(k) == <<"s", Letters[k]>>

\* a value that is the key_value of no key
UnknownValue == <<"x">>

EmptyStr == <<>>

\* keyValue[1:] when keyValue starts with '/'
StripLeadingSlash(s) == IF Len(s) > 0 /\ s[1] = "/" THEN Tail(s) ELSE s

\* key values a caller may present
KeyValues == {KeyValueOf(k) : k \in 1..MaxKeys} \cup {UnknownValue}

\* the publish requests that differ in where they carry the key value: in the
\* path with and without a leading slash, in the password with another path,
\* nowhere, or as a slash or two
ExtractionRequests ==
    {[action |-> "publish", password |-> pw, path |-> path] :
        <<pw, path>> \in {<<EmptyStr, <<"/">> \o KeyValueOf(1)>>,
                          <<EmptyStr, KeyValueOf(1)>>,
                          <<EmptyStr, EmptyStr>>,
                          <<EmptyStr, <<"/">> >>,
                          <<EmptyStr, <<"/", "/">> >>,
                          <<KeyValueOf(1), UnknownValue>>}}

\* the (action, password, path) triples of an auth request: a publish with the
\* key in its path, with an unknown key as password and with no key, and a read
AuthRequests ==
    {[action |-> "publish", password |-> EmptyStr, path |-> <<"/">> \o KeyValueOf(1)],
     [action |-> "publish", password |-> UnknownValue, path |-> EmptyStr],
     [action |-> "publish", password |-> EmptyStr, path |-> EmptyStr],
     [action |-> "read", password |-> KeyValueOf(1), path |-> KeyValueOf(1)]}

\* expires_at of a new key: none, or a time the clock can pass
Expiries == {Nil} \cup 1..(MaxTime - 1)

\* (source_type, source_id) pairs of a ready webhook; "" is the absent field
Sources == {[type |-> "", id |-> ""], [type |-> "rtmpConn", id |-> "c1"]}

\* paths a webhook may carry
WebhookPaths == KeyValues \cup {EmptyStr}

VARIABLES
    now,          \* wall clock
    broadcasters, \* ids of the rows of table broadcasters
    nextBroadcaster,
    streamKeys,   \* table stream_keys: id -> row
    nextKey,
    streams,      \* table streams: id -> row
    nextStream,
    pc,           \* position of each handler
    loc,          \* local variables of each handler in progress
    resp,         \* the response written by the step just taken, if it wrote one
    mediamtx      \* the publisher on the key's path and the notifications not yet handled

vars == <<now, broadcasters, nextBroadcaster, streamKeys, nextKey, streams,
          nextStream, pc, loc, resp, mediamtx>>

store == <<broadcasters, nextBroadcaster, streamKeys, nextKey, streams, nextStream>>

\* ---- MediaMTX's hooks ------------------------------------------------------
\* no publisher, and no runOnReady / runOnNotReady request under way
NoMediaMTX == [publisher |-> "none", ready |-> 0, notReady |-> 0]

\* the hook's request is over when the handler has answered it
Handled(m, op) ==
    IF op = "ready" /\ m.ready > 0 THEN [m EXCEPT !.ready = @ - 1]
    ELSE IF op = "notready" /\ m.notReady > 0 THEN [m EXCEPT !.notReady = @ - 1]
    ELSE m

\* ---- handler-local state ------------------------------------------------
\* MediaMTX was not asked
NoMtx == [rtmpOK |-> TRUE, rtmp |-> << >>, rtspOK |-> TRUE, rtsp |-> << >>, kickFails |-> {}]

NoLoc ==
    [op |-> "none", action |-> "", password |-> EmptyStr, keyValue |-> EmptyStr, path |-> EmptyStr, keyID |-> Nil,
     status |-> "", expiresAt |-> Nil, activeID |-> Nil, txStart |-> Nil,
     allowed |-> FALSE, reason |-> "", setExpired |-> FALSE, touch |-> FALSE,
     http |-> 0, body |-> "", err |-> "", kick |-> EmptyStr, ended |-> FALSE,
     peerAdmitted |-> FALSE, source |-> [type |-> "", id |-> ""],
     listedStreams |-> {}, listedKeys |-> {},
     kickAttempts |-> << >>, kickErr |-> "", mtx |-> NoMtx]

\* what a returning handler leaves behind: the request it served, its status
\* code and the outcome it logged
Response(l) ==
    [op |-> l.op, action |-> l.action, password |-> l.password, keyID |-> l.keyID, path |-> l.path, http |-> l.http, body |-> l.body,
     allowed |-> l.allowed, reason |-> l.reason, err |-> l.err,
     activeID |-> l.activeID, kick |-> l.kick, ended |-> l.ended,
     setExpired |-> l.setExpired, peerAdmitted |-> l.peerAdmitted,
     listedStreams |-> l.listedStreams, listedKeys |-> l.listedKeys,
     kickAttempts |-> l.kickAttempts, kickErr |-> l.kickErr]

\* no response was written by the step just taken
NoResp == Response(NoLoc)

\* pcs at which a handler is inside the Authenticate transaction
AuthTxPcs == {"auth_begin", "auth_locked", "auth_commit"}

\* pcs at which a handler waits for the answer of MediaMTX
ExternalCallPcs == {"rev_kick"}

\* a Revoke that keeps a row lock on the key while it kicks
LockPcs_WithKick == {"auth_locked", "auth_commit", "rev_kick"}

\* pcs at which the transaction holds the FOR UPDATE lock of loc.keyID
LockPcs == {"auth_locked", "auth_commit"}

\* ---- queries on the store -----------------------------------------------
\* a SELECT that lacks the key_value condition
KeysByValue_Any(v) == DOMAIN streamKeys

\* SELECT ... FROM stream_keys WHERE key_value = $1
KeysByValue(v) == {k \in DOMAIN streamKeys : streamKeys[k].keyValue = v}

\* a SELECT that lacks the status = 'active' condition
ActiveStreamsOfKey_AnyStatus(k) ==
    {s \in DOMAIN streams : streams[s].streamKeyID = k}

\* SELECT ... FROM streams WHERE stream_key_id = $1 AND status = 'active'
ActiveStreamsOfKey(k) ==
    {s \in DOMAIN streams : streams[s].streamKeyID = k /\ streams[s].status = "active"}

\* SELECT ... FROM streams WHERE path = $1 AND status = 'active'
ActiveStreamsOfPath(path) ==
    {s \in DOMAIN streams : streams[s].path = path /\ streams[s].status = "active"}

\* the row lock SELECT ... FOR UPDATE took on key k is held by some transaction
\* no statement ever waits for a row lock
Locked_Never(k) == FALSE

Locked(k) == \E q \in Procs : pc[q] \in LockPcs /\ loc[q].keyID = k

Init ==
    /\ now = 1
    /\ broadcasters = {}
    /\ nextBroadcaster = 1
    /\ streamKeys = << >>
    /\ nextKey = 1
    /\ streams = << >>
    /\ nextStream = 1
    /\ pc = [p \in Procs |-> "idle"]
    /\ loc = [p \in Procs |-> NoLoc]
    /\ resp = NoResp
    /\ mediamtx = NoMediaMTX

\* ---- helpers ------------------------------------------------------------
Restrict(f, S) == [x \in S |-> f[x]]

\* the handler writes its response and returns
Finish(p, l) ==
    /\ loc' = [loc EXCEPT ![p] = NoLoc]
    /\ pc' = [pc EXCEPT ![p] = "idle"]
    /\ resp' = Response(l)
    /\ mediamtx' = Handled(mediamtx, l.op)

\* the handler moves on to its next statement
Goto(p, label, l) ==
    /\ loc' = [loc EXCEPT ![p] = l]
    /\ pc' = [pc EXCEPT ![p] = label]
    /\ resp' = NoResp
    /\ UNCHANGED mediamtx

\* ---- time ---------------------------------------------------------------
Tick ==
    /\ now < MaxTime
    /\ now' = now + 1
    /\ UNCHANGED <<store, pc, loc, mediamtx>>
    /\ resp' = NoResp

\* ---- broadcasters -------------------------------------------------------
\* BroadcasterService.Create -> INSERT INTO broadcasters
CreateBroadcaster ==
    /\ nextBroadcaster <= MaxBroadcasters
    /\ broadcasters' = broadcasters \cup {nextBroadcaster}
    /\ nextBroadcaster' = nextBroadcaster + 1
    /\ UNCHANGED <<now, streamKeys, nextKey, streams, nextStream, pc, loc, mediamtx>>
    /\ resp' = NoResp

\* a DELETE whose foreign keys do not cascade from keys to streams
DeleteBroadcaster_KeysOnly(b) ==
    /\ b \in broadcasters
    /\ LET gone == {k \in DOMAIN streamKeys : streamKeys[k].broadcasterID = b}
       IN /\ \A k \in gone : ~Locked(k)
          /\ broadcasters' = broadcasters \ {b}
          /\ streamKeys' = Restrict(streamKeys, DOMAIN streamKeys \ gone)
          /\ streams' = streams
    /\ UNCHANGED <<now, nextBroadcaster, nextKey, nextStream, pc, loc, mediamtx>>
    /\ resp' = NoResp

\* BroadcasterService.Delete -> DELETE FROM broadcasters WHERE id = $1; the
\* ON DELETE CASCADE constraints remove the broadcaster's keys and the keys'
\* streams in the same statement.  The statement waits for row locks.
DeleteBroadcaster(b) ==
    /\ b \in broadcasters
    /\ LET gone == {k \in DOMAIN streamKeys : streamKeys[k].broadcasterID = b}
       IN /\ \A k \in gone : ~Locked(k)
          /\ broadcasters' = broadcasters \ {b}
          /\ streamKeys' = Restrict(streamKeys, DOMAIN streamKeys \ gone)
          /\ streams' = Restrict(streams,
                 {s \in DOMAIN streams : streams[s].streamKeyID \notin gone})
    /\ UNCHANGED <<now, nextBroadcaster, nextKey, nextStream, pc, loc, mediamtx>>
    /\ resp' = NoResp

\* ---- stream keys --------------------------------------------------------
\* the JSON object of a stream key: its id and its columns
KeyObject(rows, k) == [id |-> k] @@ rows[k]

\* StreamKeyService.Create -> StreamKeyRepo.Create (created_at is never read
\* by the operations modelled and is left out of the row); createStreamKey
\* answers 201 with the key, key_value included
CreateKeyUpTo(b, expiresAt, max) ==
    /\ nextKey <= max
    /\ b \in broadcasters        \* FOREIGN KEY broadcaster_id
    /\ streamKeys' = streamKeys @@ (nextKey :>
           [keyValue |-> KeyValueOf(nextKey), broadcasterID |-> b,
            status |-> "active", expiresAt |-> expiresAt, revokedAt |-> Nil,
            lastUsedAt |-> Nil])
    /\ nextKey' = nextKey + 1
    /\ UNCHANGED <<now, broadcasters, nextBroadcaster, streams, nextStream, pc, loc, mediamtx>>
    /\ resp' = Response([NoLoc EXCEPT !.op = "create_key", !.keyID = nextKey,
                                      !.http = 201,
                                      !.listedKeys = {KeyObject(streamKeys', nextKey)}])

CreateKey(b, expiresAt) == CreateKeyUpTo(b, expiresAt, MaxKeys)

\* a response that keeps the key value
ClearKeyValue_Keep(key) == key

\* key.KeyValue = "" ("Clear key value for security")
ClearKeyValue(key) == [key EXCEPT !.keyValue = EmptyStr]

\* listStreamKeys -> StreamKeyService.List: every key, key values cleared
ListKeys(p, fail) ==
    /\ pc[p] = "idle"
    /\ LET req == [NoLoc EXCEPT !.op = "list_keys"]
       IN IF fail THEN Finish(p, [req EXCEPT !.err = "store", !.http = 500])
          ELSE Finish(p, [req EXCEPT !.http = 200,
                 !.listedKeys = {ClearKeyValue(KeyObject(streamKeys, k)) :
                                   k \in DOMAIN streamKeys}])
    /\ UNCHANGED <<now, store>>

\* getStreamKey -> StreamKeyService.GetByID: the key, key value cleared
GetKey(p, id, fail) ==
    /\ pc[p] = "idle"
    /\ LET req == [NoLoc EXCEPT !.op = "get_key", !.keyID = id]
       IN IF fail THEN Finish(p, [req EXCEPT !.err = "store", !.http = 500])
          ELSE IF id \notin DOMAIN streamKeys
          THEN Finish(p, [req EXCEPT !.err = "not found", !.http = 404])
          ELSE Finish(p, [req EXCEPT !.http = 200,
                 !.listedKeys = {ClearKeyValue(KeyObject(streamKeys, id))}])
    /\ UNCHANGED <<now, store>>

\* ---- streams listing ---------------------------------------------------
\* a listing without the status condition
ListActive_All(rows) ==
    {[id |-> s, path |-> rows[s].path, status |-> rows[s].status] : s \in DOMAIN rows}

\* StreamRepo.ListActive: SELECT ... FROM streams WHERE status = 'active'
ListActive(rows) ==
    {[id |-> s, path |-> rows[s].path, status |-> rows[s].status] :
        s \in {x \in DOMAIN rows : rows[x].status = "active"}}

\* listStreams -> StreamService.ListActive
ListStreams(p, fail) ==
    /\ pc[p] = "idle"
    /\ LET req == [NoLoc EXCEPT !.op = "list_streams"]
       IN IF fail THEN Finish(p, [req EXCEPT !.err = "store", !.http = 500])
          ELSE Finish(p, [req EXCEPT !.http = 200, !.listedStreams = ListActive(streams)])
    /\ UNCHANGED <<now, store>>

\* ---- AuthHandler.ServeHTTP / AuthService.Authenticate -------------------
\* status code AuthHandler.ServeHTTP writes for Authenticate's outcome
AuthStatusCode(err, allowed) ==
    IF err # "" THEN 500 ELSE IF ~allowed THEN 401 ELSE 200

\* a handler that tells the caller why the publish was rejected
AuthBody_Reason(err, allowed, reason) ==
    IF err # "" THEN "problem" ELSE IF ~allowed THEN reason ELSE ""

\* body AuthHandler.ServeHTTP writes: a problem document for an error (WriteError),
\* nothing after WriteHeader(401) and WriteHeader(200); the reason is only logged
AuthBody(err, allowed, reason) == IF err # "" THEN "problem" ELSE ""

\* Authenticate without the Revoked check
AuthDecision_NoRevokedCheck(status, expiresAt, inUse, t) ==
    IF status = "expired"
    THEN [allowed |-> FALSE, reason |-> "stream key expired",
          setExpired |-> FALSE, touch |-> FALSE]
    ELSE IF expiresAt # Nil /\ t > expiresAt
    THEN [allowed |-> FALSE, reason |-> "stream key expired",
          setExpired |-> TRUE, touch |-> FALSE]
    ELSE IF inUse
    THEN [allowed |-> FALSE, reason |-> "stream key already in use",
          setExpired |-> FALSE, touch |-> FALSE]
    ELSE [allowed |-> TRUE, reason |-> "authentication successful",
          setExpired |-> FALSE, touch |-> TRUE]

\* Authenticate without the active-stream check
AuthDecision_NoInUseCheck(status, expiresAt, inUse, t) ==
    IF status = "revoked"
    THEN [allowed |-> FALSE, reason |-> "stream key revoked",
          setExpired |-> FALSE, touch |-> FALSE]
    ELSE IF status = "expired"
    THEN [allowed |-> FALSE, reason |-> "stream key expired",
          setExpired |-> FALSE, touch |-> FALSE]
    ELSE IF expiresAt # Nil /\ t > expiresAt
    THEN [allowed |-> FALSE, reason |-> "stream key expired",
          setExpired |-> TRUE, touch |-> FALSE]
    ELSE [allowed |-> TRUE, reason |-> "authentication successful",
          setExpired |-> FALSE, touch |-> TRUE]

\* the checks of Authenticate on the locked key, in the order of the code
\* a decision that looks at the expiry time before it looks at the status
AuthDecision_ExpiryFirst(status, expiresAt, inUse, t) ==
    IF expiresAt # Nil /\ t > expiresAt
    THEN [allowed |-> FALSE, reason |-> "stream key expired",
          setExpired |-> TRUE, touch |-> FALSE]
    ELSE IF status = "revoked"
    THEN [allowed |-> FALSE, reason |-> "stream key revoked",
          setExpired |-> FALSE, touch |-> FALSE]
    ELSE IF status = "expired"
    THEN [allowed |-> FALSE, reason |-> "stream key expired",
          setExpired |-> FALSE, touch |-> FALSE]
    ELSE IF inUse
    THEN [allowed |-> FALSE, reason |-> "stream key already in use",
          setExpired |-> FALSE, touch |-> FALSE]
    ELSE [allowed |-> TRUE, reason |-> "authentication successful",
          setExpired |-> FALSE, touch |-> TRUE]

\* a decision that looks for an active stream before it looks at the expiry
AuthDecision_InUseFirst(status, expiresAt, inUse, t) ==
    IF status = "revoked"
    THEN [allowed |-> FALSE, reason |-> "stream key revoked",
          setExpired |-> FALSE, touch |-> FALSE]
    ELSE IF status = "expired"
    THEN [allowed |-> FALSE, reason |-> "stream key expired",
          setExpired |-> FALSE, touch |-> FALSE]
    ELSE IF inUse
    THEN [allowed |-> FALSE, reason |-> "stream key already in use",
          setExpired |-> FALSE, touch |-> FALSE]
    ELSE IF expiresAt # Nil /\ t > expiresAt
    THEN [allowed |-> FALSE, reason |-> "stream key expired",
          setExpired |-> TRUE, touch |-> FALSE]
    ELSE [allowed |-> TRUE, reason |-> "authentication successful",
          setExpired |-> FALSE, touch |-> TRUE]

AuthDecision(status, expiresAt, inUse, t) ==
    IF status = "revoked"
    THEN [allowed |-> FALSE, reason |-> "stream key revoked",
          setExpired |-> FALSE, touch |-> FALSE]
    ELSE IF status = "expired"
    THEN [allowed |-> FALSE, reason |-> "stream key expired",
          setExpired |-> FALSE, touch |-> FALSE]
    ELSE IF expiresAt # Nil /\ t > expiresAt
    THEN [allowed |-> FALSE, reason |-> "stream key expired",
          setExpired |-> TRUE, touch |-> FALSE]
    ELSE IF inUse
    THEN [allowed |-> FALSE, reason |-> "stream key already in use",
          setExpired |-> FALSE, touch |-> FALSE]
    ELSE [allowed |-> TRUE, reason |-> "authentication successful",
          setExpired |-> FALSE, touch |-> TRUE]

\* a transaction that updates last_used_at on every outcome
CommittedKey_TouchAlways(row, l) ==
    [row EXCEPT !.status = IF l.setExpired THEN "expired" ELSE @,
                !.lastUsedAt = l.txStart]

\* a commit that loses the last_used_at UPDATE
CommittedKey_NoTouch(row, l) ==
    [row EXCEPT !.status = IF l.setExpired THEN "expired" ELSE @]

\* a commit that loses the status = 'expired' UPDATE
CommittedKey_NoExpire(row, l) ==
    [row EXCEPT !.lastUsedAt = IF l.touch THEN l.txStart ELSE @]

\* the key row after the transaction's UPDATE statements are committed
CommittedKey(row, l) ==
    [row EXCEPT !.status = IF l.setExpired THEN "expired" ELSE @,
                !.lastUsedAt = IF l.touch THEN l.txStart ELSE @]

\* a failure that leaves the UPDATE statements already issued in place
AuthRollback_Partial(p) ==
    /\ Finish(p, [loc[p] EXCEPT !.err = "store", !.allowed = FALSE, !.reason = "",
                                !.setExpired = FALSE, !.touch = FALSE,
                                !.password = EmptyStr, !.path = EmptyStr,
                                !.http = AuthStatusCode("store", FALSE),
                                !.body = AuthBody("store", FALSE, "")])
    /\ streamKeys' =
          IF loc[p].keyID \in DOMAIN streamKeys
          THEN [streamKeys EXCEPT ![loc[p].keyID] = CommittedKey(@, loc[p])]
          ELSE streamKeys
    /\ UNCHANGED <<now, broadcasters, nextBroadcaster, nextKey, streams, nextStream>>

\* the transaction function returned an error: pgx.BeginFunc rolls back
AuthRollback(p) ==
    /\ Finish(p, [loc[p] EXCEPT !.err = "store", !.allowed = FALSE, !.reason = "",
                                !.setExpired = FALSE, !.touch = FALSE,
                                !.password = EmptyStr, !.path = EmptyStr,
                                !.http = AuthStatusCode("store", FALSE),
                                !.body = AuthBody("store", FALSE, "")])
    /\ UNCHANGED <<now, store>>

\* an Authenticate that validates every action
IsPublish_Always(action) == TRUE

\* req.Action == "publish": only publish actions are validated
IsPublish(action) == action = "publish"

\* an extraction that prefers the path over the password
ExtractKeyValue_PathFirst(password, path) ==
    IF path # EmptyStr THEN StripLeadingSlash(path) ELSE password

\* the key value of a publish request: the password, or else the path without
\* its leading slash
ExtractKeyValue(password, path) ==
    IF password # EmptyStr THEN password ELSE StripLeadingSlash(path)

\* request decoded; non-publish and missing-key outcomes; pgx.BeginFunc begins.
\* The request's password and path are read for the key value and not again.
AuthStart(p, in) ==
    /\ pc[p] = "idle"
    /\ LET keyValue == ExtractKeyValue(in.password, in.path)
           other == [NoLoc EXCEPT !.op = "auth_other", !.action = in.action]
           req == [NoLoc EXCEPT !.op = "auth", !.action = in.action,
                                !.password = in.password, !.path = in.path]
       IN IF ~IsPublish(in.action)
          THEN Finish(p, [other EXCEPT !.allowed = TRUE,
                              !.reason = "non-publish action allowed",
                              !.http = AuthStatusCode("", TRUE),
                              !.body = AuthBody("", TRUE, "non-publish action allowed")])
          ELSE IF keyValue = EmptyStr
          THEN Finish(p, [req EXCEPT !.reason = "missing stream key",
                              !.http = AuthStatusCode("", FALSE),
                              !.body = AuthBody("", FALSE, "missing stream key")])
          ELSE Goto(p, "auth_begin",
                    [req EXCEPT !.keyValue = keyValue, !.txStart = now])
    /\ UNCHANGED <<now, store>>

\* getAndLockStreamKey: SELECT ... WHERE key_value = $1 FOR UPDATE
AuthGetAndLock(p, fail) ==
    /\ pc[p] = "auth_begin"
    /\ IF fail THEN AuthRollback(p)
       ELSE /\ LET ks == KeysByValue(loc[p].keyValue)
               IN IF ks = {}
                  THEN Goto(p, "auth_commit",
                            [loc[p] EXCEPT !.reason = "invalid stream key",
                                           !.password = EmptyStr, !.path = EmptyStr])
                  ELSE \E k \in ks :
                         /\ ~Locked(k)
                         /\ Goto(p, "auth_locked",
                                 [loc[p] EXCEPT !.keyID = k,
                                    !.password = EmptyStr, !.path = EmptyStr,
                                    !.status = streamKeys[k].status,
                                    !.expiresAt = streamKeys[k].expiresAt])
            /\ UNCHANGED <<now, store>>

\* status and expiry checks, getActiveStreamByKeyID, and the UPDATE statements,
\* whose effect stays private to the transaction until it commits
AuthDecide(p, fail) ==
    /\ pc[p] = "auth_locked"
    /\ fail => loc[p].status = "active"   \* the other paths issue no statement
    /\ IF fail THEN AuthRollback(p)
       ELSE /\ LET active == ActiveStreamsOfKey(loc[p].keyID)
                   d == AuthDecision(loc[p].status, loc[p].expiresAt,
                                     active # {}, now)
               IN Goto(p, "auth_commit",
                       [loc[p] EXCEPT !.allowed = d.allowed, !.reason = d.reason,
                                      !.setExpired = d.setExpired, !.touch = d.touch])
            /\ UNCHANGED <<now, store>>

\* COMMIT, then AuthHandler.ServeHTTP writes the status code.  peerAdmitted is
\* history: it notes, in every Authenticate for the same key value that is in
\* progress, that a call running at the same time was admitted.
AuthCommit(p, fail) ==
    /\ pc[p] = "auth_commit"
    /\ IF fail THEN AuthRollback(p)
       ELSE /\ streamKeys' =
                 IF loc[p].keyID \in DOMAIN streamKeys
                 THEN [streamKeys EXCEPT ![loc[p].keyID] = CommittedKey(@, loc[p])]
                 ELSE streamKeys
            /\ pc' = [pc EXCEPT ![p] = "idle"]
            /\ resp' = Response([loc[p] EXCEPT
                            !.http = AuthStatusCode("", loc[p].allowed),
                            !.body = AuthBody("", loc[p].allowed, loc[p].reason)])
            /\ loc' = [q \in Procs |->
                   IF q = p THEN NoLoc
                   ELSE IF loc[p].allowed /\ pc[q] \in AuthTxPcs
                           /\ loc[q].keyValue = loc[p].keyValue
                   THEN [loc[q] EXCEPT !.peerAdmitted = TRUE]
                   ELSE loc[q]]
            /\ UNCHANGED <<now, broadcasters, nextBroadcaster, nextKey, streams, nextStream,
                           mediamtx>>

\* ---- StreamKeyHandler.revokeStreamKey / StreamKeyService.Revoke -----------
\* a mapping that lacks the ErrNotFound case
MapDomainError_NoNotFound(err) ==
    IF err = "invalid status" THEN 400
    ELSE 500

\* MapDomainError: status code of a domain error
MapDomainError(err) ==
    IF err = "not found" THEN 404
    ELSE IF err = "invalid status" THEN 400
    ELSE 500

\* revokeStreamKey: 204 on success, the mapped error otherwise
RevokeStatusCode(err) == IF err = "" THEN 204 ELSE MapDomainError(err)

RevokeReturn(p, l, err) ==
    Finish(p, [l EXCEPT !.err = err, !.http = RevokeStatusCode(err)])

\* Revoke without the status check
RevokeAllowed_Any(status) == TRUE

\* Revoke proceeds only when the key it read is Active
RevokeAllowed(status) == status = "active"

\* an UPDATE that sets the status and leaves ended_at alone
EndRows_NoEndedAt(rows, sel, t) ==
    [s \in DOMAIN rows |->
        IF s \in sel /\ rows[s].status = "active"
        THEN [rows[s] EXCEPT !.status = "ended"]
        ELSE rows[s]]

\* UPDATE streams SET status = 'ended', ended_at = NOW() WHERE <sel> AND status = 'active'
EndRows(rows, sel, t) ==
    [s \in DOMAIN rows |->
        IF s \in sel /\ rows[s].status = "active"
        THEN [rows[s] EXCEPT !.status = "ended", !.endedAt = t]
        ELSE rows[s]]

\* an UPDATE that sets the status and leaves revoked_at alone
UpdateStatus_NoRevokedAt(rows, id, status, revokedAt) ==
    [rows EXCEPT ![id].status = status]

\* UPDATE stream_keys SET status = $2, revoked_at = $3 WHERE id = $1
UpdateStatus(rows, id, status, revokedAt) ==
    [rows EXCEPT ![id].status = status, ![id].revokedAt = revokedAt]

\* streamKeyRepo.GetByID and the status check
RevokeStart(p, id, fail) ==
    /\ pc[p] = "idle"
    /\ LET req == [NoLoc EXCEPT !.op = "revoke", !.keyID = id]
       IN IF fail THEN RevokeReturn(p, req, "store")
          ELSE IF id \notin DOMAIN streamKeys THEN RevokeReturn(p, req, "not found")
          ELSE LET l == [req EXCEPT !.status = streamKeys[id].status]
               IN IF ~RevokeAllowed(streamKeys[id].status)
                  THEN RevokeReturn(p, l, "invalid status")
                  ELSE Goto(p, "rev_get_active", l)
    /\ UNCHANGED <<now, store>>

\* streamRepo.GetActiveByStreamKeyID
RevokeGetActive(p, fail) ==
    /\ pc[p] = "rev_get_active"
    /\ IF fail THEN RevokeReturn(p, loc[p], "store")
       ELSE LET active == ActiveStreamsOfKey(loc[p].keyID)
            IN IF active = {}
               THEN Goto(p, "rev_update", loc[p])
               ELSE \E s \in active :
                      Goto(p, "rev_kick", [loc[p] EXCEPT !.activeID = s,
                                                         !.path = streams[s].path])
    /\ UNCHANGED <<now, store>>

\* mediaMTXClient.KickPath(activeStream.Path): ok tells whether MediaMTX
\* carried the request out, which Revoke only logs: no variable depends on it
RevokeKick(p, ok) ==
    /\ pc[p] = "rev_kick"
    /\ ok \in BOOLEAN
    /\ Goto(p, "rev_end", [loc[p] EXCEPT !.kick = loc[p].path])
    /\ UNCHANGED <<now, store>>

\* ---- MediaMTXClient.KickPath ----------------------------------------------
\* the connections MediaMTX may list for one transport, in the order it lists
\* them: Path and Id are optional in the listing (hasPath, hasId)
MtxItems(prefix) ==
    <<[id |-> <<prefix, "1">>, hasId |-> TRUE, path |-> KeyValueOf(1), hasPath |-> TRUE],
      [id |-> <<prefix, "2">>, hasId |-> TRUE, path |-> KeyValueOf(1), hasPath |-> TRUE],
      [id |-> <<prefix, "3">>, hasId |-> TRUE, path |-> UnknownValue, hasPath |-> TRUE],
      [id |-> <<prefix, "4">>, hasId |-> TRUE, path |-> EmptyStr, hasPath |-> FALSE],
      [id |-> EmptyStr, hasId |-> FALSE, path |-> KeyValueOf(1), hasPath |-> TRUE]>>

\* listings of at most MaxConns of these items
MtxLists(prefix) ==
    LET all == MtxItems(prefix)
        nth(S, i) == CHOOSE x \in S : Cardinality({y \in S : y < x}) = i - 1
    IN {[i \in 1..Cardinality(S) |-> all[nth(S, i)]] :
          S \in {T \in SUBSET (1..Len(all)) : Cardinality(T) <= MaxConns}}

\* what MediaMTX answers during one KickPath: each listing succeeds with a
\* list or fails, and the kick requests for the ids in kickFails fail
MtxAnswers ==
    [rtmpOK : BOOLEAN, rtmp : MtxLists("r"), rtspOK : BOOLEAN, rtsp : MtxLists("s"),
     kickFails : SUBSET {<<"r", "1">>, <<"s", "1">>}]

\* the loop over one listing: the ids of the kick requests it sends, in order
RECURSIVE KickMatching(_, _)
KickMatching(items, path) ==
    IF items = << >> THEN << >>
    ELSE LET c == Head(items)
         IN (IF c.hasPath /\ c.path = path /\ c.hasId THEN <<c.id>> ELSE << >>)
                \o KickMatching(Tail(items), path)

\* a KickPath that gives up, with an error, at the first failure
KickPath_StopOnFailure(mtx, path) ==
    LET rtmp == IF mtx.rtmpOK THEN KickMatching(mtx.rtmp, path) ELSE << >>
        rtsp == IF mtx.rtspOK THEN KickMatching(mtx.rtsp, path) ELSE << >>
        all == rtmp \o rtsp
        bad == {i \in 1..Len(all) : all[i] \in mtx.kickFails}
        stop == IF ~mtx.rtmpOK THEN 0
                ELSE IF \E i \in bad : i <= Len(rtmp)
                THEN CHOOSE i \in bad : \A j \in bad : i <= j
                ELSE IF ~mtx.rtspOK THEN Len(rtmp)
                ELSE IF bad # {} THEN CHOOSE i \in bad : \A j \in bad : i <= j
                ELSE Len(all)
    IN [attempted |-> SubSeq(all, 1, stop),
        err |-> IF mtx.rtmpOK /\ mtx.rtspOK /\ bad = {} THEN "" ELSE "mediamtx"]

\* KickPath: list the RTMP connections and kick those of the path, then the
\* RTSP sessions; a failed listing or kick is logged; the result is nil
KickPath(mtx, path) ==
    [attempted |-> (IF mtx.rtmpOK THEN KickMatching(mtx.rtmp, path) ELSE << >>)
                       \o (IF mtx.rtspOK THEN KickMatching(mtx.rtsp, path) ELSE << >>),
     err |-> ""]

\* Revoke's call of KickPath with the answers of MediaMTX spelled out: an
\* error is logged and Revoke goes on
RevokeKickPath(p, mtx) ==
    /\ pc[p] = "rev_kick"
    /\ LET r == KickPath(mtx, loc[p].path)
       IN Goto(p, "rev_end", [loc[p] EXCEPT !.kick = loc[p].path, !.mtx = mtx,
                                           !.kickAttempts = r.attempted,
                                           !.kickErr = r.err])
    /\ UNCHANGED <<now, store>>

\* streamRepo.EndStream(activeStream.ID): an error (the store's, or ErrNotFound
\* when the UPDATE affected no row) is only logged; ended tells whether this
\* call's UPDATE ended the stream
RevokeEndStream(p, fail) ==
    /\ pc[p] = "rev_end"
    /\ streams' = IF fail THEN streams ELSE EndRows(streams, {loc[p].activeID}, now)
    /\ Goto(p, "rev_update",
            [loc[p] EXCEPT !.ended = ~fail /\ loc[p].activeID \in ActiveStreamsOfKey(loc[p].keyID)])
    /\ UNCHANGED <<now, broadcasters, nextBroadcaster, streamKeys, nextKey, nextStream>>

\* streamKeyRepo.UpdateStatus(id, Revoked, &now); the UPDATE waits for the
\* row lock of a transaction that holds the key
RevokeUpdateStatus(p, fail) ==
    /\ pc[p] = "rev_update"
    /\ IF fail
       THEN RevokeReturn(p, loc[p], "store") /\ UNCHANGED streamKeys
       ELSE IF loc[p].keyID \notin DOMAIN streamKeys
       THEN RevokeReturn(p, loc[p], "not found") /\ UNCHANGED streamKeys
       ELSE /\ ~Locked(loc[p].keyID)
            /\ streamKeys' = UpdateStatus(streamKeys, loc[p].keyID, "revoked", now)
            /\ RevokeReturn(p, loc[p], "")
    /\ UNCHANGED <<now, broadcasters, nextBroadcaster, nextKey, streams, nextStream>>

\* ---- WebhookHandler -----------------------------------------------------
\* stream ids the handlers between GetByKeyValue and Create may still use
PendingCreates == Cardinality({q \in Procs : pc[q] = "ready_create"})

\* a streams table without idx_streams_one_active_per_key
UniqueViolation_Off(k) == FALSE

\* a unique index that is partial on status = 'ended' instead of 'active'
UniqueViolation_OnEnded(k) ==
    \E s \in DOMAIN streams : streams[s].streamKeyID = k /\ streams[s].status = "ended"

\* idx_streams_one_active_per_key rejects the INSERT
UniqueViolation(k) == ActiveStreamsOfKey(k) # {}

\* a handler that answers 404 for a path it does not know
WebhookStatusCode_NotFound404(err) == IF err = "not found" THEN 404 ELSE 204

\* a handler that surfaces its internal errors
WebhookStatusCode_Surfaced(err) == IF err \in {"", "not found"} THEN 204 ELSE 500

\* status code of a webhook whose path is present: 204 whatever the outcome
\* ("Don't fail the webhook - MediaMTX needs 2xx to continue")
WebhookStatusCode(err) == 204

\* an UPDATE that lacks the path condition
EndStreamByPath_AllPaths(rows, path, t) ==
    LET sel == {s \in DOMAIN rows : rows[s].status = "active"}
    IN [rows |-> EndRows(rows, sel, t),
        err |-> IF sel = {} THEN "not found" ELSE ""]

\* an UPDATE by path that lacks the status = 'active' condition
EndStreamByPath_AnyStatus(rows, path, t) ==
    LET sel == {s \in DOMAIN rows : rows[s].path = path}
    IN [rows |-> [s \in DOMAIN rows |->
                    IF s \in sel THEN [rows[s] EXCEPT !.status = "ended", !.endedAt = t]
                    ELSE rows[s]],
        err |-> IF sel = {} THEN "not found" ELSE ""]

\* StreamRepo.EndStreamByPath: the rows after the UPDATE, ErrNotFound when it
\* affected none
EndStreamByPath(rows, path, t) ==
    LET sel == {s \in DOMAIN rows : rows[s].path = path /\ rows[s].status = "active"}
    IN [rows |-> EndRows(rows, sel, t),
        err |-> IF sel = {} THEN "not found" ELSE ""]

\* the pointer stored for an optional request field
Optional(v) == IF v # "" THEN v ELSE "null"

\* handleReady: decode, path check, streamKeyRepo.GetByKeyValue
ReadyStart(p, path, src, fail) ==
    /\ pc[p] = "idle"
    /\ nextStream + PendingCreates <= MaxStreams
    /\ LET req == [NoLoc EXCEPT !.op = "ready", !.path = path, !.source = src]
       IN IF path = EmptyStr THEN Finish(p, [req EXCEPT !.http = 400])
          ELSE IF fail THEN Finish(p, [req EXCEPT !.err = "store",
                                           !.http = WebhookStatusCode("store")])
          ELSE LET ks == KeysByValue(path)
               IN IF ks = {}
                  THEN Finish(p, [req EXCEPT !.err = "not found",
                                      !.http = WebhookStatusCode("not found")])
                  ELSE \E k \in ks : Goto(p, "ready_create", [req EXCEPT !.keyID = k])
    /\ UNCHANGED <<now, store>>

\* handleReady: streamRepo.Create.  The INSERT checks the foreign key (taking a
\* key-share lock on the key row, which waits for a FOR UPDATE lock) and the
\* partial unique index.
ReadyCreate(p, fail) ==
    /\ pc[p] = "ready_create"
    /\ LET k == loc[p].keyID
       IN IF fail
          THEN /\ Finish(p, [loc[p] EXCEPT !.err = "store",
                                          !.http = WebhookStatusCode("store")])
               /\ UNCHANGED <<streams, nextStream>>
          ELSE IF k \notin DOMAIN streamKeys
          THEN /\ Finish(p, [loc[p] EXCEPT !.err = "foreign key",
                                          !.http = WebhookStatusCode("foreign key")])
               /\ UNCHANGED <<streams, nextStream>>
          ELSE /\ ~Locked(k)
               /\ IF UniqueViolation(k)
                  THEN /\ Finish(p, [loc[p] EXCEPT !.err = "unique",
                                                  !.http = WebhookStatusCode("unique")])
                       /\ UNCHANGED <<streams, nextStream>>
                  ELSE /\ streams' = streams @@ (nextStream :>
                              [streamKeyID |-> k, path |-> loc[p].path,
                               status |-> "active", endedAt |-> Nil,
                               sourceType |-> Optional(loc[p].source.type),
                               sourceID |-> Optional(loc[p].source.id)])
                       /\ nextStream' = nextStream + 1
                       /\ Finish(p, [loc[p] EXCEPT !.activeID = nextStream,
                                                  !.http = WebhookStatusCode("")])
    /\ UNCHANGED <<now, broadcasters, nextBroadcaster, streamKeys, nextKey>>

\* handleNotReady: decode, path check, streamRepo.EndStreamByPath
NotReady(p, path, fail) ==
    /\ pc[p] = "idle"
    /\ LET req == [NoLoc EXCEPT !.op = "notready", !.path = path]
           r == EndStreamByPath(streams, path, now)
       IN IF path = EmptyStr
          THEN Finish(p, [req EXCEPT !.http = 400]) /\ UNCHANGED streams
          ELSE IF fail
          THEN /\ Finish(p, [req EXCEPT !.err = "store",
                                        !.http = WebhookStatusCode("store")])
               /\ UNCHANGED streams
          ELSE /\ streams' = r.rows
               /\ Finish(p, [req EXCEPT !.err = r.err, !.http = WebhookStatusCode(r.err)])
    /\ UNCHANGED <<now, broadcasters, nextBroadcaster, streamKeys, nextKey, nextStream>>

Next ==
    \/ Tick
    \/ CreateBroadcaster
    \/ \E b \in 1..MaxBroadcasters : DeleteBroadcaster(b)
    \/ \E b \in 1..MaxBroadcasters, e \in Expiries : CreateKey(b, e)
    \/ \E p \in Procs, in \in AuthRequests : AuthStart(p, in)
    \/ \E p \in Procs, fail \in BOOLEAN : AuthGetAndLock(p, fail)
    \/ \E p \in Procs, fail \in BOOLEAN : AuthDecide(p, fail)
    \/ \E p \in Procs, fail \in BOOLEAN : AuthCommit(p, fail)
    \/ \E p \in Procs, id \in 1..MaxKeys, fail \in BOOLEAN : RevokeStart(p, id, fail)
    \/ \E p \in Procs, fail \in BOOLEAN : RevokeGetActive(p, fail)
    \/ \E p \in Procs, ok \in BOOLEAN : RevokeKick(p, ok)
    \/ \E p \in Procs, fail \in BOOLEAN : RevokeEndStream(p, fail)
    \/ \E p \in Procs, fail \in BOOLEAN : RevokeUpdateStatus(p, fail)
    \/ \E p \in Procs, path \in WebhookPaths, fail \in BOOLEAN :
          ReadyStart(p, path, [type |-> "rtmpConn", id |-> "c1"], fail)
    \/ \E p \in Procs, fail \in BOOLEAN : ReadyCreate(p, fail)
    \/ \E p \in Procs, path \in WebhookPaths, fail \in BOOLEAN : NotReady(p, path, fail)

Spec == Init /\ [][Next]_vars

\* the operations above together with the read-only listings
NextReads ==
    \/ Next
    \/ \E p \in Procs, fail \in BOOLEAN : ListStreams(p, fail)
    \/ \E p \in Procs, fail \in BOOLEAN : ListKeys(p, fail)
    \/ \E p \in Procs, id \in 1..MaxKeys, fail \in BOOLEAN : GetKey(p, id, fail)

SpecReads == Init /\ [][NextReads]_vars

\* publish requests that present the key value of key k as password
PublishOf(k) == [action |-> "publish", password |-> KeyValueOf(k), path |-> EmptyStr]

\* the operations on two keys of one broadcaster that never expire, at one
\* instant, the store never failing
NextIsolation ==
    \/ CreateBroadcaster
    \/ \E b \in 1..MaxBroadcasters : CreateKeyUpTo(b, Nil, MaxKeysIsolation)
    \/ \E p \in Procs, k \in 1..MaxKeysIsolation : AuthStart(p, PublishOf(k))
    \/ \E p \in Procs : AuthGetAndLock(p, FALSE)
    \/ \E p \in Procs : AuthDecide(p, FALSE)
    \/ \E p \in Procs : AuthCommit(p, FALSE)
    \/ \E p \in Procs, id \in 1..MaxKeysIsolation : RevokeStart(p, id, FALSE)
    \/ \E p \in Procs : RevokeGetActive(p, FALSE)
    \/ \E p \in Procs : RevokeKick(p, TRUE)
    \/ \E p \in Procs : RevokeEndStream(p, FALSE)
    \/ \E p \in Procs : RevokeUpdateStatus(p, FALSE)
    \/ \E p \in Procs, k \in 1..MaxKeysIsolation :
          ReadyStart(p, KeyValueOf(k), [type |-> "rtmpConn", id |-> "c1"], FALSE)
    \/ \E p \in Procs : ReadyCreate(p, FALSE)
    \/ \E p \in Procs, k \in 1..MaxKeysIsolation : NotReady(p, KeyValueOf(k), FALSE)

SpecIsolation == Init /\ [][NextIsolation]_vars

\* the callers that revoke in SpecKick
Revokers == {1}

\* revocations of one key, one at a time, with the answers of MediaMTX spelled
\* out, the store never failing
NextKick ==
    \/ CreateBroadcaster
    \/ \E b \in 1..MaxBroadcasters : CreateKey(b, Nil)
    \/ \E p \in Procs : ReadyStart(p, KeyValueOf(1), [type |-> "rtmpConn", id |-> "c1"], FALSE)
    \/ \E p \in Procs : ReadyCreate(p, FALSE)
    \/ \E p \in Revokers, id \in 1..MaxKeys : RevokeStart(p, id, FALSE)
    \/ \E p \in Revokers : RevokeGetActive(p, FALSE)
    \/ \E p \in Revokers, mtx \in MtxAnswers : RevokeKickPath(p, mtx)
    \/ \E p \in Revokers : RevokeEndStream(p, FALSE)
    \/ \E p \in Revokers : RevokeUpdateStatus(p, FALSE)

SpecKick == Init /\ [][NextKick]_vars

\* MediaMTX starts the publisher it has just been told to admit; the
\* runOnReady hook posts its notification n times
PublisherStart(n) ==
    /\ mediamtx.publisher = "none"
    /\ resp.op = "auth" /\ resp.allowed
    /\ mediamtx' = [mediamtx EXCEPT !.publisher = "live", !.ready = n]
    /\ resp' = NoResp
    /\ UNCHANGED <<now, store, pc, loc>>

\* the publisher stops; the runOnNotReady hook posts its notification n times
PublisherStop(n) ==
    /\ mediamtx.publisher = "live"
    /\ mediamtx' = [mediamtx EXCEPT !.publisher = "stopped", !.notReady = n]
    /\ resp' = NoResp
    /\ UNCHANGED <<now, store, pc, loc>>

\* ready notifications whose handler has not started yet
ReadyToDeliver ==
    mediamtx.ready - Cardinality({p \in Procs : pc[p] = "ready_create"})

\* the ready handler starts for a notification MediaMTX posted, with or
\* without the source fields
DeliverReady(p, src) ==
    /\ ReadyToDeliver > 0
    /\ ReadyStart(p, KeyValueOf(1), src, FALSE)

\* the not-ready handler runs for a notification MediaMTX posted
DeliverNotReady(p) ==
    /\ mediamtx.notReady > 0
    /\ NotReady(p, KeyValueOf(1), FALSE)

\* one publisher session on the path of key 1: the webhook handlers run only
\* for the notifications MediaMTX posted, in any order, the store never failing
NextNotify ==
    \/ CreateBroadcaster
    \/ \E b \in 1..MaxBroadcasters : CreateKey(b, Nil)
    \/ \E p \in Procs : AuthStart(p, PublishOf(1))
    \/ \E p \in Procs : AuthGetAndLock(p, FALSE)
    \/ \E p \in Procs : AuthDecide(p, FALSE)
    \/ \E p \in Procs : AuthCommit(p, FALSE)
    \/ \E n \in 1..MaxCopies : PublisherStart(n)
    \/ \E n \in 1..MaxCopies : PublisherStop(n)
    \/ \E p \in Procs, src \in Sources : DeliverReady(p, src)
    \/ \E p \in Procs : ReadyCreate(p, FALSE)
    \/ \E p \in Procs : DeliverNotReady(p)

SpecNotify == Init /\ [][NextNotify]_vars

\* publish Authenticate calls with every form of request, the store never
\* failing, on a key that a ready webhook can put in use
NextExtract ==
    \/ CreateBroadcaster
    \/ \E b \in 1..MaxBroadcasters : CreateKey(b, Nil)
    \/ \E p \in Procs, in \in ExtractionRequests : AuthStart(p, in)
    \/ \E p \in Procs : AuthGetAndLock(p, FALSE)
    \/ \E p \in Procs : AuthDecide(p, FALSE)
    \/ \E p \in Procs : AuthCommit(p, FALSE)
    \/ \E p \in Procs : ReadyStart(p, KeyValueOf(1), [type |-> "rtmpConn", id |-> "c1"], FALSE)
    \/ \E p \in Procs : ReadyCreate(p, FALSE)

SpecExtract == Init /\ [][NextExtract]_vars
\* ========================================================================
\* Properties
\* ========================================================================

\* the step with which handler p returns
Returns(p) == pc[p] # "idle" /\ pc'[p] = "idle"

\* code's expiry test on the locked key: time.Now().After(*key.ExpiresAt)
Expired(expiresAt, t) == expiresAt # Nil /\ t > expiresAt

\* C1: in every reachable state each stream key is referenced by at most one
\* stream whose status is active.
C1_OneActivePerKey ==
    \A k \in {streams[s].streamKeyID : s \in DOMAIN streams} :
        Cardinality(ActiveStreamsOfKey(k)) <= 1

\* a ready webhook for a key that has an active stream was turned away by the
\* unique index
C1_Witness ==
    /\ resp.op = "ready" /\ resp.err = "unique"
    /\ ActiveStreamsOfKey(resp.keyID) # {}

\* C2: of two publish Authenticate calls that run at the same time for the
\* same Active, unexpired key without an active stream, exactly one is admitted
\* and the other is rejected with "stream key already in use".  (No stream row
\* ever existed: nextStream = 1.)
C2_ExactlyOneAdmitted ==
    (resp.op = "auth" /\ resp.peerAdmitted /\ resp.err = "" /\ nextStream = 1)
        => (resp.http = 401 /\ resp.reason = "stream key already in use")

\* C3: when Authenticate admits a publish, an active stream row referencing the
\* key exists right after the admission, and the key's last_used_at is set.
C3_AdmissionCreatesStream ==
    (resp.op = "auth" /\ resp.http = 200)
        => /\ ActiveStreamsOfKey(resp.keyID) # {}
           /\ streamKeys[resp.keyID].lastUsedAt # Nil

C5_RevokedNeverAdmitted ==
    [][/\ \A k \in DOMAIN streamKeys \cap DOMAIN streamKeys' :
            streamKeys[k].status = "revoked" => streamKeys'[k].status = "revoked"
       /\ \A p \in Procs :
            (/\ pc[p] \in LockPcs /\ Returns(p)
             /\ loc[p].keyID \in DOMAIN streamKeys
             /\ streamKeys[loc[p].keyID].status = "revoked")
                => /\ resp'.http # 200
                   /\ resp'.err = "" => resp'.http = 401]_vars

\* a publish rejected on a key that a Revoke had revoked
C5_Witness ==
    /\ resp.op = "auth" /\ resp.http = 401 /\ resp.reason = "stream key revoked"
    /\ resp.keyID \in DOMAIN streamKeys
    /\ streamKeys[resp.keyID].revokedAt # Nil

\* C6: a publish Authenticate on an Active key whose expires_at has passed
\* decides to reject, and unless the store fails the call answers 401 and the
\* key's stored status is Expired when it returns.
C6_ExpiredMarkedOnReject ==
    [][\A p \in Procs :
        /\ (/\ pc[p] = "auth_locked" /\ pc'[p] = "auth_commit"
            /\ loc[p].status = "active" /\ Expired(loc[p].expiresAt, now))
               => ~loc'[p].allowed /\ loc'[p].setExpired
        /\ (pc[p] = "auth_commit" /\ loc[p].setExpired /\ Returns(p) /\ resp'.err = "")
               => /\ resp'.http = 401
                  /\ streamKeys[loc[p].keyID].status = "active"
                  /\ streamKeys'[loc[p].keyID].status = "expired"]_vars

\* a rejected publish that wrote Expired
C6_Witness ==
    /\ resp.op = "auth" /\ resp.http = 401 /\ resp.setExpired
    /\ streamKeys[resp.keyID].status = "expired"

\* C7: while an active stream exists for an Active, unexpired key, a publish
\* Authenticate decides "stream key already in use", answers 401 unless the
\* store fails, and changes no stream-key or stream row.
C7_InUseRejected ==
    [][\A p \in Procs :
        /\ (/\ pc[p] = "auth_locked" /\ pc'[p] = "auth_commit"
            /\ loc[p].status = "active" /\ ~Expired(loc[p].expiresAt, now)
            /\ ActiveStreamsOfKey(loc[p].keyID) # {})
               => /\ ~loc'[p].allowed
                  /\ loc'[p].reason = "stream key already in use"
        /\ (/\ pc[p] = "auth_commit" /\ Returns(p)
            /\ loc[p].reason = "stream key already in use")
               => /\ streamKeys' = streamKeys /\ streams' = streams
                  /\ resp'.http # 200
                  /\ resp'.err = "" => resp'.http = 401]_vars

\* a publish rejected as in use while the key's active stream is there
C7_Witness ==
    /\ resp.op = "auth" /\ resp.http = 401
    /\ resp.reason = "stream key already in use"
    /\ ActiveStreamsOfKey(resp.keyID) # {}

\* C8: a stream key's status only ever changes from Active to Revoked or from
\* Active to Expired.
C8_StatusMonotonic ==
    [][\A k \in DOMAIN streamKeys \cap DOMAIN streamKeys' :
        streamKeys'[k].status # streamKeys[k].status
            => /\ streamKeys[k].status = "active"
               /\ streamKeys'[k].status \in {"revoked", "expired"}]_vars

\* C9: a Revoke of a key whose status is Revoked or Expired returns the
\* invalid-status error (400) unless the store fails, issues no kick and
\* changes no row; and a Revoke that succeeds had read the key as Active.
C9_RevokeOnlyActive ==
    [][/\ (/\ resp'.op = "revoke" /\ pc' = pc /\ resp'.err # "store"
           /\ resp'.keyID \in DOMAIN streamKeys
           /\ streamKeys[resp'.keyID].status \in {"revoked", "expired"})
              => /\ resp'.err = "invalid status" /\ resp'.http = 400
                 /\ resp'.kick = EmptyStr
                 /\ streamKeys' = streamKeys /\ streams' = streams
       /\ \A p \in Procs :
            pc[p] \in {"rev_get_active", "rev_kick", "rev_end", "rev_update"}
                => loc[p].status = "active"]_vars

\* a Revoke turned away with 400 on an Expired key
C9_Witness ==
    /\ resp.op = "revoke" /\ resp.err = "invalid status" /\ resp.http = 400
    /\ streamKeys[resp.keyID].status = "expired"

\* C10: when Revoke returns success for a key whose active stream it found,
\* that stream has status ended and ended_at set.
C10_RevokeEndsStream ==
    (resp.op = "revoke" /\ resp.http = 204 /\ resp.activeID # Nil)
        => /\ resp.activeID \in DOMAIN streams
           /\ streams[resp.activeID].status = "ended"
           /\ streams[resp.activeID].endedAt # Nil

\* C11: a Revoke that finds an active stream of the key reads that stream's
\* path p, issues its kick request for exactly p before it ends the stream,
\* and a Revoke without an active stream issues no kick; a Revoke that returns
\* success leaves the key Revoked with revoked_at set to the time of the
\* revocation.
C11_RevokeKicksAndMarks ==
    [][\A p \in Procs :
        /\ (pc[p] = "rev_get_active" /\ pc'[p] = "rev_kick")
               => /\ loc'[p].activeID \in ActiveStreamsOfKey(loc[p].keyID)
                  /\ loc'[p].path = streams[loc'[p].activeID].path
                  /\ loc'[p].kick = EmptyStr
        /\ (pc[p] = "rev_kick" /\ pc'[p] # "rev_kick")
               => /\ pc'[p] = "rev_end"
                  /\ loc'[p].kick = loc[p].path /\ loc[p].path # EmptyStr
        /\ (pc[p] = "rev_update" /\ Returns(p))
               => /\ resp'.kick = (IF resp'.activeID # Nil THEN resp'.path ELSE EmptyStr)
                  /\ resp'.err = ""
                        => /\ streamKeys'[loc[p].keyID].status = "revoked"
                           /\ streamKeys'[loc[p].keyID].revokedAt = now
                           /\ now # Nil]_vars

\* a successful Revoke that kicked the path of the key's active stream
C11_Witness ==
    /\ resp.op = "revoke" /\ resp.err = "" /\ resp.activeID # Nil
    /\ resp.kick = KeyValueOf(1)
    /\ streamKeys[resp.keyID].status = "revoked"
    /\ streamKeys[resp.keyID].revokedAt # Nil

\* C12: a Revoke that returns a store error has changed nothing (it has not
\* ended the key's stream), and a Revoke that returns success for a key whose
\* active stream it found has not left that stream active.
C12_NoPartialRevoke ==
    /\ (resp.op = "revoke" /\ resp.err = "store") => ~resp.ended
    /\ (resp.op = "revoke" /\ resp.err = "" /\ resp.activeID # Nil)
          => resp.activeID \notin ActiveStreamsOfKey(resp.keyID)

\* C13: a Revoke whose identifier matches no stream key when it is looked up
\* returns not-found (404) unless the store fails, issues no kick and changes
\* no row.
C13_RevokeNotFound ==
    [][\A p \in Procs :
        (/\ pc[p] = "idle" /\ resp'.op = "revoke" /\ pc' = pc
         /\ resp'.keyID \notin DOMAIN streamKeys)
            => /\ resp'.err \in {"not found", "store"}
               /\ resp'.err = "not found" => resp'.http = 404
               /\ resp'.kick = EmptyStr /\ resp'.activeID = Nil
               /\ UNCHANGED store]_vars

\* a Revoke of an identifier without a key was answered 404
C13_Witness ==
    /\ resp.op = "revoke" /\ resp.err = "not found" /\ resp.http = 404
    /\ resp.keyID \notin DOMAIN streamKeys /\ resp.kick = EmptyStr

\* a 2xx status code
Success(http) == http \in 200..299

\* C14: the ready webhook never creates a stream row.
C14_ReadyNeverCreates ==
    [][resp'.op = "ready" => DOMAIN streams' = DOMAIN streams]_vars

\* C15: a ready webhook whose non-empty path is the key_value of no stream key
\* returns a 2xx status and leaves every table as it was.
C15_ReadyUnknownPath ==
    [][\A p \in Procs :
        (/\ pc[p] = "idle" /\ resp'.op = "ready" /\ pc' = pc
         /\ resp'.path # EmptyStr /\ KeysByValue(resp'.path) = {})
            => Success(resp'.http) /\ UNCHANGED store]_vars

\* a ready webhook for a path without a key was acknowledged
C15_Witness ==
    /\ resp.op = "ready" /\ resp.err = "not found" /\ resp.http = 204
    /\ resp.path = UnknownValue /\ KeysByValue(resp.path) = {}

\* C16: once a not-ready webhook for path p has returned success, no active
\* stream with path p remains.
C16_NotReadyEndsStream ==
    (resp.op = "notready" /\ Success(resp.http)) => ActiveStreamsOfPath(resp.path) = {}

\* C17: a not-ready webhook that arrives when no active stream has its path
\* (a second delivery included) changes no row and returns success.
C17_NotReadyIdempotent ==
    [][(/\ resp'.op = "notready" /\ resp'.path # EmptyStr
        /\ ActiveStreamsOfPath(resp'.path) = {})
            => Success(resp'.http) /\ UNCHANGED store]_vars

\* a not-ready webhook for a path whose stream was already ended
C17_Witness ==
    /\ resp.op = "notready" /\ resp.err = "not found" /\ resp.http = 204
    /\ \E s \in DOMAIN streams :
          streams[s].path = resp.path /\ streams[s].status = "ended"

\* the store has a row for the key of path and that key has an active stream
KeyHasActiveStream(path) ==
    \E k \in KeysByValue(path) : ActiveStreamsOfKey(k) # {}

\* C18: a ready webhook that returns without a store error leaves behind a
\* state in which its path has no key or the key has an active stream; a
\* ready webhook whose steps are taken in such a state (a second delivery with
\* nothing in between) changes no row; and every delivery returns success.
C18_ReadyTwice ==
    [][\A p \in Procs :
        /\ (resp'.op = "ready" /\ resp'.path # EmptyStr)
               => /\ Success(resp'.http)
                  /\ resp'.err # "store"
                        => (KeysByValue(resp.path) = {} \/ KeyHasActiveStream(resp.path))'
        /\ (pc[p] = "idle" /\ pc'[p] = "ready_create") => UNCHANGED store
        /\ (/\ pc[p] = "ready_create" /\ Returns(p)
            /\ (KeysByValue(loc[p].path) = {} \/ KeyHasActiveStream(loc[p].path)))
               => UNCHANGED store]_vars

\* the second of two deliveries: the only stream row is the active one the
\* first delivery created, and the webhook was acknowledged
C18_Witness ==
    /\ resp.op = "ready" /\ resp.err = "unique" /\ resp.http = 204
    /\ DOMAIN streams = {1}
    /\ streams[1].path = resp.path /\ streams[1].status = "active"

\* C19: every ready or not-ready webhook with a non-empty path is answered
\* with a 2xx status, whether it changed a row, was a no-op or met an error.
C19_WebhookAcknowledged ==
    (resp.op \in {"ready", "notready"} /\ resp.path # EmptyStr) => Success(resp.http)

\* a not-ready webhook acknowledged although its UPDATE failed
C19_Witness ==
    /\ resp.op = "notready" /\ resp.err = "store" /\ resp.http = 204
    /\ ActiveStreamsOfPath(resp.path) # {}

\* C20: an Authenticate whose action is not publish returns in its first
\* step, admitted with 200, whatever credential it carries; it never enters
\* the transaction and leaves every table as it was.
C20_NonPublishAllowed ==
    [][\A p \in Procs :
        /\ (resp'.op \in {"auth", "auth_other"} /\ resp'.action # "publish")
               => /\ resp'.allowed /\ resp'.http = 200 /\ resp'.err = ""
                  /\ pc' = pc /\ UNCHANGED store
        /\ pc'[p] \in AuthTxPcs => loc'[p].action = "publish"]_vars

\* a read admitted while the store holds a revoked key
C20_Witness ==
    /\ resp.op = "auth_other" /\ resp.action = "read" /\ resp.http = 200
    /\ \E k \in DOMAIN streamKeys : streamKeys[k].status = "revoked"

\* the reasons for which Authenticate rejects a publish
RejectReasons ==
    {"missing stream key", "invalid stream key", "stream key revoked",
     "stream key expired", "stream key already in use"}

C22_AtomicDecision ==
    [][\A p \in Procs :
        /\ (pc[p] \in AuthTxPcs /\ pc'[p] \in AuthTxPcs /\ pc'[p] # pc[p])
               => UNCHANGED store
        /\ (pc[p] \in AuthTxPcs /\ Returns(p) /\ resp'.err # "")
               => resp'.http = 500 /\ UNCHANGED store]_vars

\* an Authenticate on an Active key whose expiry has passed failed, and the
\* key is still Active
C22_Witness ==
    /\ resp.op = "auth" /\ resp.err = "store" /\ resp.http = 500
    /\ resp.keyID \in DOMAIN streamKeys
    /\ streamKeys[resp.keyID].status = "active"
    /\ Expired(streamKeys[resp.keyID].expiresAt, now)

\* C23: every active stream references a key whose status is Active and that a
\* publish Authenticate has admitted (an admission is what sets last_used_at).
C23_ActiveStreamsAuthorized ==
    \A s \in DOMAIN streams :
        streams[s].status = "active"
            => /\ streams[s].streamKeyID \in DOMAIN streamKeys
               /\ streamKeys[streams[s].streamKeyID].status = "active"
               /\ streamKeys[streams[s].streamKeyID].lastUsedAt # Nil

\* C24: the stream listing returns exactly the streams whose status is
\* active, each with its path.
C24_ListingIsActiveStreams ==
    (resp.op = "list_streams" /\ resp.http = 200)
        => /\ {r.id : r \in resp.listedStreams}
                = {s \in DOMAIN streams : streams[s].status = "active"}
           /\ \A r \in resp.listedStreams :
                 r.path = streams[r.id].path /\ r.status = "active"

\* a listing that shows the active stream and leaves out an ended one
C24_Witness ==
    /\ resp.op = "list_streams" /\ resp.http = 200
    /\ resp.listedStreams # {}
    /\ \E s \in DOMAIN streams : streams[s].status = "ended"

C26_RejectWritesOnlyExpiry ==
    [][(resp'.op = "auth" /\ resp'.err = "" /\ ~resp'.allowed)
        => IF resp'.setExpired
           THEN /\ resp'.reason = "stream key expired"
                /\ streamKeys[resp'.keyID].status = "active"
                /\ streamKeys' = [streamKeys EXCEPT ![resp'.keyID].status = "expired"]
                /\ UNCHANGED <<broadcasters, nextBroadcaster, nextKey, streams, nextStream>>
           ELSE UNCHANGED store]_vars

\* a publish rejected for a key already stored as Expired: nothing written
C26_Witness ==
    /\ resp.op = "auth" /\ resp.reason = "stream key expired" /\ ~resp.setExpired
    /\ resp.http = 401
    /\ streamKeys[resp.keyID].status = "expired"
    /\ streamKeys[resp.keyID].lastUsedAt = Nil

\* C27: Revoke acts on current observations: when it writes Revoked, the key's
\* stored status is still the one it read, and if it found no active stream
\* the key still has none.
C27_RevokeSerialized ==
    [][\A p \in Procs :
        (pc[p] = "rev_update" /\ Returns(p) /\ resp'.err = "")
            => /\ streamKeys[loc[p].keyID].status = loc[p].status
               /\ loc[p].activeID = Nil => ActiveStreamsOfKey(loc[p].keyID) = {}]_vars

\* the handlers that hold the row lock of key k
LockHolders(k) == {q \in Procs : pc[q] \in LockPcs /\ loc[q].keyID = k}

C30_KeyValuePrecedence ==
    [][\A p \in Procs :
        LET want(l) == IF l.password # EmptyStr THEN l.password
                       ELSE IF Len(l.path) > 0 /\ Head(l.path) = "/" THEN Tail(l.path)
                       ELSE l.path
        IN /\ (pc[p] = "idle" /\ pc'[p] = "auth_begin")
                  => loc'[p].keyValue = want(loc'[p]) /\ loc'[p].keyValue # EmptyStr
           /\ (pc[p] = "auth_begin" /\ pc'[p] = "auth_locked")
                  => streamKeys[loc'[p].keyID].keyValue = want(loc[p])
           /\ (pc[p] = "auth_begin" /\ pc'[p] = "auth_commit")
                  => KeysByValue(want(loc[p])) = {}
           /\ (pc[p] = "idle" /\ pc' = pc /\ resp'.op = "auth")
                  => /\ want(resp') = EmptyStr
                     /\ resp'.reason = "missing stream key" /\ resp'.http = 401
                     /\ UNCHANGED store]_vars

\* a publish carrying a key's value as password and another value as path is
\* about to look up the password
C30_Witness ==
    \E p \in Procs :
        /\ pc[p] = "auth_begin"
        /\ loc[p].password = KeyValueOf(1) /\ loc[p].path = UnknownValue
        /\ loc[p].keyValue = KeyValueOf(1)
        /\ KeysByValue(KeyValueOf(1)) # {}

\* the keys a request addresses: by id, or by the key value it carries
AddressedKeys(keyID, values) ==
    ({keyID} \cap DOMAIN streamKeys) \cup UNION {KeysByValue(v) : v \in values}

\* the stream rows of key k
StreamRowsOfKey(rows, k) ==
    [s \in {t \in DOMAIN rows : rows[t].streamKeyID = k} |-> rows[s]]

\* C29: a step of an authentication, a revocation or a webhook addressed to
\* one key leaves every other key's row and every other key's stream rows as
\* they were, and what it decides is computed from the addressed key's own row
\* and streams; a lock on another key never makes it wait.
C29_KeyIsolation ==
    [][\A p \in Procs :
        LET A == AddressedKeys(loc[p].keyID, {loc[p].keyValue, loc[p].path})
                     \cup AddressedKeys(loc'[p].keyID, {loc'[p].keyValue, loc'[p].path})
                     \cup IF pc[p] = "idle" /\ pc' = pc /\ resp' # NoResp
                          THEN AddressedKeys(resp'.keyID, {resp'.password, resp'.path})
                          ELSE {}
            acts == \/ pc'[p] # pc[p]
                    \/ /\ pc[p] = "idle" /\ pc' = pc
                       /\ resp' # NoResp /\ resp'.op # "create_key"
        IN /\ acts => \A B \in DOMAIN streamKeys \ A :
                          /\ B \in DOMAIN streamKeys'
                          /\ streamKeys'[B] = streamKeys[B]
                          /\ StreamRowsOfKey(streams', B) = StreamRowsOfKey(streams, B)
           /\ (pc[p] = "auth_locked" /\ pc'[p] = "auth_commit")
                  => LET k == loc[p].keyID
                     IN loc'[p].allowed =
                            (/\ streamKeys[k].status = "active"
                             /\ ~Expired(streamKeys[k].expiresAt, now)
                             /\ ActiveStreamsOfKey(k) = {})
           /\ (pc[p] = "idle" /\ pc' = pc /\ resp'.op = "revoke"
                   /\ resp'.keyID \in DOMAIN streamKeys)
                  => resp'.http = 400 /\ streamKeys[resp'.keyID].status # "active"
           /\ (pc[p] = "ready_create" /\ pc'[p] = "idle")
                  => (resp'.err = "unique") = (ActiveStreamsOfKey(loc[p].keyID) # {})
           /\ (pc[p] = "auth_begin"
                   /\ \A k \in KeysByValue(loc[p].keyValue) : LockHolders(k) = {})
                  => ENABLED AuthGetAndLock(p, FALSE)
           /\ (pc[p] = "ready_create" /\ LockHolders(loc[p].keyID) = {})
                  => ENABLED ReadyCreate(p, FALSE)]_vars

\* a stream of one key was ended by its not-ready webhook while another key
\* has an active stream, and a publisher of that other key holds its lock
C29_Witness ==
    /\ resp.op = "notready" /\ resp.err = ""
    /\ \E s \in DOMAIN streams :
          /\ streams[s].status = "active"
          /\ streams[s].path # resp.path
    /\ \E p \in Procs, k \in DOMAIN streamKeys :
          /\ pc[p] \in LockPcs /\ loc[p].keyID = k
          /\ streamKeys[k].keyValue # resp.path


\* C31: the admission checks run in the order revoked, expired, in use.  When
\* the transaction decides on a key whose row is Revoked it rejects with
\* "stream key revoked" and plans no write, whatever the expiry and the
\* streams; on an Active key past its expiry that has an active stream it
\* rejects with "stream key expired" and plans the Expired write; and the
\* commit of a planned Expired write stores Expired and answers 401.
C31_CheckOrder ==
    [][\A p \in Procs :
        /\ (pc[p] = "auth_locked" /\ pc'[p] = "auth_commit"
                /\ loc[p].keyID \in DOMAIN streamKeys)
               => LET k == loc[p].keyID
                      row == streamKeys[k]
                  IN /\ row.status = "revoked"
                            => /\ loc'[p].reason = "stream key revoked"
                               /\ ~loc'[p].allowed /\ ~loc'[p].setExpired
                               /\ ~loc'[p].touch
                     /\ (row.status = "active" /\ Expired(row.expiresAt, now)
                             /\ ActiveStreamsOfKey(k) # {})
                            => /\ loc'[p].reason = "stream key expired"
                               /\ ~loc'[p].allowed /\ loc'[p].setExpired
        /\ (pc[p] = "auth_commit" /\ pc'[p] = "idle" /\ resp'.err = ""
                /\ loc[p].keyID \in DOMAIN streamKeys)
               => /\ resp'.reason = loc[p].reason
                  /\ loc[p].setExpired
                         => /\ streamKeys'[loc[p].keyID].status = "expired"
                            /\ resp'.http = 401
                  /\ loc[p].reason = "stream key revoked"
                         => /\ streamKeys'[loc[p].keyID] = streamKeys[loc[p].keyID]
                            /\ resp'.http = 401]_vars

\* a publish was rejected as expired, its key is now Expired, and the key has
\* an active stream
C31_Witness ==
    /\ resp.op = "auth" /\ resp.reason = "stream key expired" /\ resp.setExpired
    /\ resp.keyID \in DOMAIN streamKeys
    /\ streamKeys[resp.keyID].status = "expired"
    /\ ActiveStreamsOfKey(resp.keyID) # {}


\* C32: when Authenticate marks a stream key Expired, the streams of that key
\* are marked inactive: after the step that stores Expired the key has no
\* active stream.
C32_ExpiryEndsStreams ==
    [][\A k \in DOMAIN streamKeys :
          (/\ k \in DOMAIN streamKeys'
           /\ streamKeys[k].status # "expired"
           /\ streamKeys'[k].status = "expired")
              => ActiveStreamsOfKey(k)' = {}]_vars


\* the ids of the items of a listing that advertise the path
IdsOfPath(items, path) ==
    {items[i].id : i \in {j \in 1..Len(items) :
                            items[j].hasPath /\ items[j].path = path /\ items[j].hasId}}

\* C33: KickPath sends a kick for every listed RTMP connection and every
\* listed RTSP session whose path is the given path (and for no other), a
\* failed listing of one transport or a failed kick does not stop the
\* remaining kicks, and it returns no error: whatever MediaMTX answers, Revoke
\* goes on to end the stream and returns 204 with the key Revoked.
C33_KickPathBestEffort ==
    [][\A p \in Procs :
        /\ (pc[p] = "rev_kick" /\ pc'[p] # "rev_kick")
               => LET mtx == loc'[p].mtx
                  IN /\ {loc'[p].kickAttempts[i] : i \in 1..Len(loc'[p].kickAttempts)}
                            = (IF mtx.rtmpOK THEN IdsOfPath(mtx.rtmp, loc[p].path) ELSE {})
                                 \cup (IF mtx.rtspOK THEN IdsOfPath(mtx.rtsp, loc[p].path) ELSE {})
                     /\ loc'[p].kickErr = ""
                     /\ pc'[p] = "rev_end"
        /\ (pc[p] = "rev_update" /\ pc'[p] = "idle" /\ resp'.kick # EmptyStr)
               => /\ resp'.http = 204 /\ resp'.err = "" /\ resp'.kickErr = ""
                  /\ streamKeys'[resp'.keyID].status = "revoked"]_vars

\* a KickPath whose RTMP listing failed and whose first kick failed has still
\* sent the kicks for both RTSP sessions of the path, and Revoke goes on
C33_Witness ==
    \E p \in Procs :
        /\ pc[p] = "rev_end"
        /\ ~loc[p].mtx.rtmpOK /\ loc[p].mtx.rtspOK
        /\ <<"s", "1">> \in loc[p].mtx.kickFails
        /\ loc[p].kickAttempts = << <<"s", "1">>, <<"s", "2">> >>


\* C34: after every step each stream has ended_at set exactly when its status
\* is ended, and a stream that is ended stays as it is: no step returns it to
\* active, clears its ended_at or stamps it again.
C34_StreamStatusMonotonic ==
    [][/\ \A s \in DOMAIN streams' :
             /\ streams'[s].status \in {"active", "ended"}
             /\ (streams'[s].endedAt # Nil) <=> (streams'[s].status = "ended")
       /\ \A s \in DOMAIN streams \cap DOMAIN streams' :
             streams[s].status = "ended" => streams'[s] = streams[s]
       /\ \A s \in DOMAIN streams' \ DOMAIN streams :
             streams'[s].status = "active"]_vars

\* an ended stream with its ended_at, after a further not-ready webhook for its
\* path found nothing to end, while the clock has moved past its ended_at
C34_Witness ==
    /\ resp.op = "notready" /\ resp.err = "not found"
    /\ \E s \in DOMAIN streams :
          /\ streams[s].path = resp.path
          /\ streams[s].status = "ended"
          /\ streams[s].endedAt # Nil /\ streams[s].endedAt < now


\* C35: in every reachable state, whatever the interleaving of Revoke and
\* Authenticate, a stream key has revoked_at set if and only if its status is
\* Revoked.
C35_RevokedAtIffRevoked ==
    \A k \in DOMAIN streamKeys :
        (streamKeys[k].revokedAt # Nil) <=> (streamKeys[k].status = "revoked")

\* a Revoke that read the key as Active is about to write while an
\* Authenticate has meanwhile marked the key Expired
C35_Witness ==
    \E p \in Procs :
        /\ pc[p] = "rev_update" /\ loc[p].status = "active"
        /\ loc[p].keyID \in DOMAIN streamKeys
        /\ streamKeys[loc[p].keyID].status = "expired"
        /\ streamKeys[loc[p].keyID].revokedAt = Nil

\* C36: Revoked is absorbing.  A step never changes the status of a key that
\* is Revoked, and an Authenticate that marks a key Expired at its commit finds
\* the row Active: a Revoke cannot have written between its locking read and
\* its commit.
C36_RevokedAbsorbing ==
    [][/\ \A k \in DOMAIN streamKeys \cap DOMAIN streamKeys' :
             streamKeys[k].status = "revoked" => streamKeys'[k].status = "revoked"
       /\ \A p \in Procs :
             (pc[p] = "auth_commit" /\ pc'[p] = "idle" /\ loc[p].setExpired
                  /\ resp'.err = "" /\ loc[p].keyID \in DOMAIN streamKeys)
                 => /\ streamKeys[loc[p].keyID].status = "active"
                    /\ streamKeys'[loc[p].keyID].status = "expired"]_vars

\* an Authenticate holds the lock of a key past its expiry and has planned the
\* Expired write while a Revoke of the same key waits to write Revoked
C36_Witness ==
    \E p, q \in Procs :
        /\ pc[p] = "auth_commit" /\ loc[p].setExpired
        /\ pc[q] = "rev_update" /\ loc[q].keyID = loc[p].keyID


\* C37: referential integrity holds in every reachable state, also after a
\* broadcaster was deleted: every stream references an existing stream key and
\* every stream key references an existing broadcaster.
C37_ReferentialIntegrity ==
    /\ \A s \in DOMAIN streams : streams[s].streamKeyID \in DOMAIN streamKeys
    /\ \A k \in DOMAIN streamKeys : streamKeys[k].broadcasterID \in broadcasters

\* the broadcaster was deleted, and with it its key and the stream that a
\* Revoke in progress had just found active
C37_Witness ==
    /\ nextBroadcaster > 1 /\ broadcasters = {}
    /\ streamKeys = << >> /\ streams = << >>
    /\ \E p \in Procs : pc[p] = "rev_kick" /\ loc[p].activeID # Nil


\* C38: after every step each stream's path is the key_value of the stream key
\* it references, and the streams a not-ready webhook for path p changes are
\* streams of the key whose value is p.
C38_PathIsKeyValue ==
    [][/\ \A s \in DOMAIN streams' :
             /\ streams'[s].streamKeyID \in DOMAIN streamKeys'
             /\ streams'[s].path = streamKeys'[streams'[s].streamKeyID].keyValue
       /\ resp'.op = "notready"
             => \A s \in DOMAIN streams :
                   streams'[s] # streams[s]
                       => streamKeys[streams[s].streamKeyID].keyValue = resp'.path]_vars

\* a not-ready webhook ended the stream of one key while the stream of the
\* other key stays active
C38_Witness ==
    /\ resp.op = "notready" /\ resp.err = ""
    /\ \E s, t \in DOMAIN streams :
          /\ streams[s].path = resp.path /\ streams[s].status = "ended"
          /\ streams[t].status = "active"
          /\ streams[t].streamKeyID # streams[s].streamKeyID


\* C39: once the publisher on the path has stopped and every notification
\* MediaMTX posted for it, duplicates included, has been handled, no active
\* stream with that path remains.
C39_NoStaleStream ==
    (/\ mediamtx.publisher = "stopped"
     /\ mediamtx.ready = 0 /\ mediamtx.notReady = 0)
        => ActiveStreamsOfPath(KeyValueOf(1)) = {}


\* the key exists, all its streams are ended and there is at least one
OnlyEndedStreams(k) ==
    /\ k \in DOMAIN streamKeys
    /\ \E s \in DOMAIN streams : streams[s].streamKeyID = k
    /\ \A s \in DOMAIN streams :
          streams[s].streamKeyID = k => streams[s].status = "ended"

\* C40: an ended stream never blocks re-use of its key.  A publish
\* Authenticate that decides on an Active, unexpired key all of whose streams
\* are ended admits it and answers 200, and a ready webhook that inserts for a
\* key all of whose streams are ended records a new active stream for it.
C40_EndedStreamFreesKey ==
    [][\A p \in Procs :
        /\ (pc[p] = "auth_locked" /\ pc'[p] = "auth_commit"
                /\ OnlyEndedStreams(loc[p].keyID)
                /\ streamKeys[loc[p].keyID].status = "active"
                /\ ~Expired(streamKeys[loc[p].keyID].expiresAt, now))
               => loc'[p].allowed /\ loc'[p].reason = "authentication successful"
        /\ (pc[p] = "auth_commit" /\ pc'[p] = "idle" /\ loc[p].allowed /\ resp'.err = "")
               => resp'.http = 200 /\ resp'.allowed
        /\ (pc[p] = "ready_create" /\ pc'[p] = "idle" /\ resp'.err # "store"
                /\ OnlyEndedStreams(loc[p].keyID))
               => \E s \in DOMAIN streams' \ DOMAIN streams :
                     /\ streams'[s].streamKeyID = loc[p].keyID
                     /\ streams'[s].status = "active"
                     /\ resp'.err = ""]_vars

\* the key's first stream was ended, the key was admitted again afterwards,
\* and the ready webhook has recorded a second, active stream for it
C40_Witness ==
    /\ resp.op = "ready" /\ resp.err = ""
    /\ \E s, t \in DOMAIN streams :
          /\ resp.activeID = t /\ s < t
          /\ streams[s].streamKeyID = streams[t].streamKeyID
          /\ streams[s].status = "ended" /\ streams[t].status = "active"
          /\ streamKeys[streams[t].streamKeyID].status = "active"
          /\ streamKeys[streams[t].streamKeyID].lastUsedAt # Nil
          /\ streamKeys[streams[t].streamKeyID].lastUsedAt >= streams[s].endedAt

====
